---- MODULE Spec2Model ----
(***************************************************************************)
(* scripts/sync_version.py: the version synchronizer.                     *)
(*                                                                         *)
(* Text is a sequence of one-character strings.  In a header text the     *)
(* three literals "#define XEUS_OCAML_VERSION_MAJOR|MINOR|PATCH" are one  *)
(* token each ("MAJOR", "MINOR", "PATCH"), "sp" and "nl" are the          *)
(* whitespace characters (\s), "0".."3" are the digits (\d) and "a" is    *)
(* any other character.                                                    *)
(***************************************************************************)
EXTENDS Integers, Sequences, FiniteSets, TLC

\* ------------------------------------------------------------------ bounds
\* longest whitespace run written between a marker and its value
MaxPad == 2
\* number of runs of the tool in one behaviour
MaxRuns == 2

\* ------------------------------------------------------------- characters
Markers == {"MAJOR", "MINOR", "PATCH"}
Digits == {"0", "1", "2", "3"}
WS == {"sp", "nl"}

Min(S) == CHOOSE x \in S : \A y \in S : x <= y

\* ---------------------------------------------------------------- regex
\* index of the first character at or after i that is not whitespace
RECURSIVE SkipWS(_, _)
SkipWS(h, i) == IF i <= Len(h) /\ h[i] \in WS THEN SkipWS(h, i + 1) ELSE i

\* (\d+), greedy: the longest run of digits starting at i
RECURSIVE TakeDigits(_, _)
TakeDigits(h, i) ==
    IF i <= Len(h) /\ h[i] \in Digits THEN <<h[i]>> \o TakeDigits(h, i + 1) ELSE <<>>

\* the pattern with \s in place of \s+ : one whitespace character only
MatchAt_single_space(h, m, i) ==
    /\ h[i] = m
    /\ i + 2 <= Len(h)
    /\ h[i + 1] \in WS
    /\ h[i + 2] \in Digits

\* the pattern  <marker literal>\s+(\d+)  matches at position i
MatchAt(h, m, i) ==
    /\ h[i] = m
    /\ i + 1 <= Len(h)
    /\ h[i + 1] \in WS
    /\ SkipWS(h, i + 1) <= Len(h)
    /\ h[SkipWS(h, i + 1)] \in Digits

NoMatch == [matched |-> FALSE, group1 |-> <<>>]

\* the leftmost position at or after i where the pattern matches, 0 if none
RECURSIVE FirstMatch(_, _, _)
FirstMatch(h, m, i) ==
    IF i > Len(h) THEN 0
    ELSE IF MatchAt(h, m, i) THEN i
    ELSE FirstMatch(h, m, i + 1)

\* re.search: the leftmost match, or None
re_search(m, h) ==
    IF FirstMatch(h, m, 1) = 0 THEN NoMatch
    ELSE [matched |-> TRUE, group1 |-> TakeDigits(h, SkipWS(h, FirstMatch(h, m, 1) + 1))]

\* the patch component left out of the string
FormatVersion_no_patch(major, minor, patch) == major \o <<".">> \o minor

\* f"{major}.{minor}.{patch}"
FormatVersion(major, minor, patch) == major \o <<".">> \o minor \o <<".">> \o patch

\* a header file: absent, or present with its text
AbsentFile == [exists |-> FALSE, text |-> <<>>]
HeaderFile(t) == [exists |-> TRUE, text |-> t]

\* get_version_from_header: the version string, or the RuntimeError raised
get_version_from_header(hf) ==
    IF ~hf.exists
    THEN [ok |-> FALSE, error |-> "RuntimeError:introuvable", version |-> <<>>]
    ELSE LET major_match == re_search("MAJOR", hf.text)
             minor_match == re_search("MINOR", hf.text)
             patch_match == re_search("PATCH", hf.text)
         IN  IF ~(major_match.matched /\ minor_match.matched /\ patch_match.matched)
             THEN [ok |-> FALSE, error |-> "RuntimeError:analyse", version |-> <<>>]
             ELSE [ok |-> TRUE, error |-> "none",
                   version |-> FormatVersion(major_match.group1, minor_match.group1,
                                             patch_match.group1)]

\* ------------------------------------------------------- header inputs
\* the header texts a run may find at HEADER_PATH: the three marker lines in
\* any order, 1..MaxPad whitespace characters between a marker and its value,
\* with or without surrounding text; the values are numbers (one with a
\* leading zero), or one marker is missing, or MAJOR has a value that is no
\* number
Missing == <<"-">>
V1 == [MAJOR |-> <<"1">>, MINOR |-> <<"2">>, PATCH |-> <<"3">>]
V2 == [MAJOR |-> <<"1">>, MINOR |-> <<"3">>, PATCH |-> <<"0">>]
V3 == [MAJOR |-> <<"0", "1">>, MINOR |-> <<"2">>, PATCH |-> <<"3">>]
BadValues == {<<"a">>, <<"1", "a">>}
ValueAssignments ==
    {V1, V2, V3}
    \cup {[V1 EXCEPT ![m] = Missing] : m \in Markers}
    \cup {[V1 EXCEPT !.MAJOR = b] : b \in BadValues}
Orders == {o \in [1..3 -> Markers] : \A i, j \in 1..3 : o[i] = o[j] => i = j}

Pad(p) == [i \in 1..p |-> IF i % 2 = 1 THEN "sp" ELSE "nl"]
Line(m, v, p, junk) ==
    IF v = Missing THEN <<>>
    ELSE <<m>> \o Pad(p) \o v \o (IF junk THEN <<"sp", "a", "nl">> ELSE <<"nl">>)
RenderHeader(o, va, p, junk) ==
    (IF junk THEN <<"a", "sp", "a", "nl">> ELSE <<>>)
    \o Line(o[1], va[o[1]], p, junk) \o Line(o[2], va[o[2]], p, junk)
    \o Line(o[3], va[o[3]], p, junk)
\* MAJOR is defined twice, first with a value that is no number
DupHeader ==
    <<"MAJOR", "sp", "a", "nl">> \o RenderHeader(<<"MAJOR", "MINOR", "PATCH">>, V1, 1, FALSE)
HeaderTexts ==
    {RenderHeader(o, va, p, junk) :
        o \in Orders, va \in ValueAssignments, p \in 1..MaxPad, junk \in BOOLEAN}
    \cup {DupHeader}
HeaderFiles == {AbsentFile} \cup {HeaderFile(t) : t \in HeaderTexts}
\* what an external edit of the header leaves behind
HeaderEdits ==
    {AbsentFile}
    \cup {HeaderFile(RenderHeader(<<"MAJOR", "MINOR", "PATCH">>, va, 1, FALSE)) : va \in {V1, V2}}

\* ------------------------------------------------------------- the recipe
\* A recipe file (YAML): absent, or present with a document of one of four
\* shapes: "empty" (no content), "nocontext" (a mapping without the key
\* context), "noversion" (context without the key version), "full".  A full
\* document has the scalar written at context.version (its text, and whether
\* it is written in quotes), one more string scalar (quoted or not) and
\* possibly an inline comment.
RecipeFile(shape, version, verQuoted, nameQuoted, comment) ==
    [exists |-> TRUE, shape |-> shape, version |-> version, verQuoted |-> verQuoted,
     nameQuoted |-> nameQuoted, comment |-> comment]
AbsentRecipe ==
    [exists |-> FALSE, shape |-> "empty", version |-> <<>>, verQuoted |-> FALSE,
     nameQuoted |-> FALSE, comment |-> FALSE]
\* a file just opened for writing: zero bytes
EmptyRecipe == RecipeFile("empty", <<>>, FALSE, FALSE, FALSE)

IsInt(s) == s # <<>> /\ \A i \in 1..Len(s) : s[i] \in Digits
IsFloat(s) ==
    \E k \in 1..Len(s) :
        /\ s[k] = "."
        /\ IsInt(SubSeq(s, 1, k - 1))
        /\ IsInt(SubSeq(s, k + 1, Len(s)))

\* the type the YAML resolver gives a scalar
Resolve(text, quoted) ==
    IF quoted THEN "str"
    ELSE IF IsInt(text) THEN "int"
    ELSE IF IsFloat(text) THEN "float"
    ELSE "str"

\* yaml.load (round-trip mode, preserve_quotes unset): the values, the
\* comments and the key order are kept; the quotes of a string scalar are not
NoData == [shape |-> "none", version |-> [type |-> "str", text |-> <<>>], comment |-> FALSE]
yaml_load(rf) ==
    IF ~rf.exists THEN [ok |-> FALSE, data |-> NoData]
    ELSE [ok |-> TRUE,
          data |-> [shape |-> rf.shape,
                    version |-> [type |-> Resolve(rf.version, rf.verQuoted),
                                 text |-> rf.version],
                    comment |-> rf.comment]]

RECURSIVE StripLeadingZeros(_)
StripLeadingZeros(s) ==
    IF Len(s) > 1 /\ s[1] = "0" THEN StripLeadingZeros(Tail(s)) ELSE s
RECURSIVE StripTrailingZeros(_)
StripTrailingZeros(s) ==
    IF Len(s) > 1 /\ s[Len(s)] = "0" THEN StripTrailingZeros(SubSeq(s, 1, Len(s) - 1))
    ELSE s
DotAt(s) == CHOOSE k \in 1..Len(s) : s[k] = "."

\* str(value)
str(v) ==
    IF v.type = "int" THEN StripLeadingZeros(v.text)
    ELSE IF v.type = "float"
    THEN StripLeadingZeros(SubSeq(v.text, 1, DotAt(v.text) - 1)) \o <<".">>
         \o StripTrailingZeros(SubSeq(v.text, DotAt(v.text) + 1, Len(v.text)))
    ELSE v.text

\* a lookup with a default ( .get('version', '') ) in place of the subscript
get_recipe_version_default(data) ==
    IF data.shape = "full" THEN [ok |-> TRUE, error |-> "none", version |-> str(data.version)]
    ELSE [ok |-> TRUE, error |-> "none", version |-> <<>>]

\* str(recipe_data['context']['version']): the string, or the exception
get_recipe_version(data) ==
    IF data.shape = "empty" THEN [ok |-> FALSE, error |-> "TypeError", version |-> <<>>]
    ELSE IF data.shape = "nocontext"
    THEN [ok |-> FALSE, error |-> "KeyError:context", version |-> <<>>]
    ELSE IF data.shape = "noversion"
    THEN [ok |-> FALSE, error |-> "KeyError:version", version |-> <<>>]
    ELSE [ok |-> TRUE, error |-> "none", version |-> str(data.version)]

\* the assignment left out
set_version_noop(data, header_version) == data

\* recipe_data['context']['version'] = header_version
set_version(data, header_version) ==
    [data EXCEPT !.version = [type |-> "str", text |-> header_version]]

\* the text yaml.dump writes for the loaded data: a string is quoted only
\* when it would otherwise read back as a number
yaml_dump(data) ==
    RecipeFile(data.shape, data.version.text,
               data.version.type = "str" /\ Resolve(data.version.text, FALSE) # "str",
               FALSE, data.comment)

\* the flag ignored: a mismatch is always written back
reconcile_ignores_check(header_version, recipe_version, check_only) ==
    IF header_version = recipe_version THEN "Synced" ELSE "Updated"

\* the comparison skipped in sync mode: sync always writes
reconcile_always_writes(header_version, recipe_version, check_only) ==
    IF check_only
    THEN (IF header_version = recipe_version THEN "Synced" ELSE "Mismatch")
    ELSE "Updated"

\* the branch main takes once both versions are known (lines 54-67)
reconcile(header_version, recipe_version, check_only) ==
    IF header_version = recipe_version THEN "Synced"
    ELSE IF check_only THEN "Mismatch"
    ELSE "Updated"

\* ------------------------------------------------------- recipe inputs
Ver123 == <<"1", ".", "2", ".", "3">>
RecipeVersions ==
    {Ver123, <<"1", ".", "3", ".", "0">>,
     <<"0", "1", ".", "2", ".", "3">>, <<"1", ".", "2", "0">>}
RecipeFiles ==
    {AbsentRecipe, EmptyRecipe,
     RecipeFile("nocontext", <<>>, FALSE, FALSE, TRUE),
     RecipeFile("noversion", <<>>, FALSE, TRUE, FALSE)}
    \cup {RecipeFile("full", v, FALSE, FALSE, FALSE) : v \in RecipeVersions}
    \cup {RecipeFile("full", v, TRUE, FALSE, TRUE) : v \in {Ver123, <<"1", ".", "2", "0">>}}
    \cup {RecipeFile("full", Ver123, FALSE, TRUE, c) : c \in BOOLEAN}
\* what an external edit of the recipe leaves behind
RecipeEdits ==
    {AbsentRecipe, RecipeFile("full", Ver123, TRUE, TRUE, TRUE),
     RecipeFile("full", <<"1", ".", "3", ".", "0">>, FALSE, FALSE, FALSE)}

\* ------------------------------------------------------------------ state
\* get_version_from_header, tabulated over the header files a behaviour can
\* hold
AllHeaderFiles == HeaderFiles \cup HeaderEdits
header_versions == [hf \in AllHeaderFiles |-> get_version_from_header(hf)]

VARIABLES
    header,          \* the file at HEADER_PATH
    recipe,          \* the file at RECIPE_PATH
    pc,              \* where the running main is: idle (no run yet, or files
                     \* edited since), get_header, load, read_version,
                     \* compare, dump, writing, done
    killed,          \* the run was interrupted where pc stands
    check_only,      \* main's parameter: "--check" in sys.argv
    header_version,  \* main's locals
    recipe_data,
    recipe_version,
    exit_code,       \* the process's exit status, -1 while it has none
    outcome,         \* how the run ended, "none" while it has not
    out,             \* the last message printed
    writes,          \* times this run opened RECIPE_PATH for writing
    recipe0,         \* the file at RECIPE_PATH when this run started
    runs,            \* runs started so far
    prev             \* the run before this one, when no file was edited since

vars ==
    <<header, recipe, pc, killed, check_only, header_version, recipe_data, recipe_version,
      exit_code, outcome, out, writes, recipe0, runs, prev>>

NoOut == [stream |-> "none", kind |-> "none", names |-> {}]
Message(stream, kind, names) == [stream |-> stream, kind |-> kind, names |-> names]
NoPrev == [check_only |-> FALSE, outcome |-> "none", exit_code |-> -1]

Running == {"get_header", "load", "read_version", "compare", "dump", "writing"}

Init ==
    /\ header \in HeaderFiles
    /\ recipe \in RecipeFiles
    /\ pc = "idle"
    /\ killed = FALSE
    /\ check_only = FALSE
    /\ header_version = <<>>
    /\ recipe_data = NoData
    /\ recipe_version = <<>>
    /\ exit_code = -1
    /\ outcome = "none"
    /\ out = NoOut
    /\ writes = 0
    /\ recipe0 = recipe
    /\ runs = 0
    /\ prev = NoPrev

\* the command is invoked, with or without --check (lines 73-75)
StartRun ==
    /\ pc \in {"idle", "done"} \/ killed
    /\ runs < MaxRuns
    /\ \E is_check \in BOOLEAN : check_only' = is_check
    /\ pc' = "get_header"
    /\ killed' = FALSE
    /\ header_version' = <<>>
    /\ recipe_data' = NoData
    /\ recipe_version' = <<>>
    /\ exit_code' = -1
    /\ outcome' = "none"
    /\ out' = NoOut
    /\ writes' = 0
    /\ recipe0' = recipe
    /\ runs' = runs + 1
    /\ prev' = IF pc = "idle" THEN NoPrev
               ELSE [check_only |-> check_only,
                     outcome |-> IF killed THEN "Killed" ELSE outcome,
                     exit_code |-> exit_code]
    /\ UNCHANGED <<header, recipe>>

\* sys.exit(code) after a message, or the interpreter's exit on an uncaught
\* exception (status 1, traceback on stderr)
Exit(code, how, message) ==
    /\ pc' = "done"
    /\ exit_code' = code
    /\ outcome' = how
    /\ out' = message

\* lines 36-40
GetHeader ==
    /\ pc = "get_header" /\ ~killed
    /\ LET r == header_versions[header]
       IN  IF r.ok
           THEN /\ header_version' = r.version
                /\ pc' = "load"
                /\ UNCHANGED <<exit_code, outcome, out>>
           ELSE /\ Exit(1, r.error, Message("stderr", "Erreur", {"HEADER_PATH"}))
                /\ UNCHANGED header_version
    /\ UNCHANGED <<header, recipe, killed, check_only, recipe_data, recipe_version, writes,
                   recipe0, runs, prev>>

\* lines 42-50
LoadRecipe ==
    /\ pc = "load" /\ ~killed
    /\ LET r == yaml_load(recipe)
       IN  IF r.ok
           THEN /\ recipe_data' = r.data
                /\ pc' = "read_version"
                /\ UNCHANGED <<exit_code, outcome, out>>
           ELSE /\ Exit(1, "FileNotFoundError", Message("stderr", "Erreur", {"RECIPE_PATH"}))
                /\ UNCHANGED recipe_data
    /\ UNCHANGED <<header, recipe, killed, check_only, header_version, recipe_version,
                   writes, recipe0, runs, prev>>

\* line 52; no handler catches what it raises
ReadVersion ==
    /\ pc = "read_version" /\ ~killed
    /\ LET r == get_recipe_version(recipe_data)
       IN  IF r.ok
           THEN /\ recipe_version' = r.version
                /\ pc' = "compare"
                /\ UNCHANGED <<exit_code, outcome, out>>
           ELSE /\ Exit(1, r.error, Message("stderr", "Traceback", {}))
                /\ UNCHANGED recipe_version
    /\ UNCHANGED <<header, recipe, killed, check_only, header_version, recipe_data, writes,
                   recipe0, runs, prev>>

\* lines 54-68
Compare ==
    /\ pc = "compare" /\ ~killed
    /\ LET branch == reconcile(header_version, recipe_version, check_only)
       IN  CASE branch = "Synced" ->
                    Exit(0, "Synced", Message("stdout", "synchronisees", {}))
             [] branch = "Mismatch" ->
                    Exit(1, "Mismatch",
                         Message("stderr", "Erreur", {"HEADER_PATH", "RECIPE_PATH"}))
             [] branch = "Updated" ->
                    /\ pc' = "dump"
                    /\ out' = Message("stdout", "Mise a jour", {})
                    /\ UNCHANGED <<exit_code, outcome>>
    /\ UNCHANGED <<header, recipe, killed, check_only, header_version, recipe_data,
                   recipe_version, writes, recipe0, runs, prev>>

\* lines 69-70: the assignment, then yaml.dump opens RECIPE_PATH for writing,
\* which empties the file
OpenDump ==
    /\ pc = "dump" /\ ~killed
    /\ recipe_data' = set_version(recipe_data, header_version)
    /\ recipe' = EmptyRecipe
    /\ writes' = writes + 1
    /\ pc' = "writing"
    /\ UNCHANGED <<header, killed, check_only, header_version, recipe_version, exit_code,
                   outcome, out, recipe0, runs, prev>>

\* lines 70-71: the document is written and the file closed; main returns
WriteDump ==
    /\ pc = "writing" /\ ~killed
    /\ recipe' = yaml_dump(recipe_data)
    /\ Exit(0, "Updated", Message("stdout", "Termine", {}))
    /\ UNCHANGED <<header, killed, check_only, header_version, recipe_data, recipe_version,
                   writes, recipe0, runs, prev>>

\* the process is interrupted between two steps
Interrupt ==
    /\ pc \in Running /\ ~killed
    /\ killed' = TRUE
    /\ UNCHANGED <<header, recipe, pc, check_only, header_version, recipe_data,
                   recipe_version, exit_code, outcome, out, writes, recipe0, runs, prev>>

\* between two runs somebody edits a file
Forget ==
    /\ pc' = "idle"
    /\ killed' = FALSE
    /\ check_only' = FALSE
    /\ header_version' = <<>>
    /\ recipe_data' = NoData
    /\ recipe_version' = <<>>
    /\ exit_code' = -1
    /\ outcome' = "none"
    /\ out' = NoOut
    /\ writes' = 0
    /\ prev' = NoPrev
    /\ UNCHANGED runs

EditRecipe ==
    /\ pc = "done" \/ killed
    /\ runs < MaxRuns
    /\ \E f \in RecipeEdits \ {recipe} : recipe' = f /\ recipe0' = f
    /\ Forget
    /\ UNCHANGED header

EditHeader ==
    /\ pc = "done" \/ killed
    /\ runs < MaxRuns
    /\ \E f \in HeaderEdits \ {header} : header' = f
    /\ recipe0' = recipe
    /\ Forget
    /\ UNCHANGED recipe

RunStep == GetHeader \/ LoadRecipe \/ ReadVersion \/ Compare \/ OpenDump \/ WriteDump

Next == StartRun \/ RunStep \/ Interrupt \/ EditRecipe \/ EditHeader

Spec == Init /\ [][Next]_vars

\* a run that is not interrupted takes its next step: main is straight-line
\* code in one process
FairSpec == Spec /\ WF_vars(RunStep)

\* ============================================================== properties
\* -------------------------------------------- what the header text says
Occurrences(h, m) == {i \in 1..Len(h) : h[i] = m}
\* the characters from i up to the next whitespace
RECURSIVE TakeWord(_, _)
TakeWord(h, i) ==
    IF i <= Len(h) /\ h[i] \notin WS THEN <<h[i]>> \o TakeWord(h, i + 1) ELSE <<>>
\* the value a marker line at position i defines
ValueAt(h, i) == TakeWord(h, SkipWS(h, i + 1))
MarkerAbsent(h, m) == Occurrences(h, m) = {}
NonNumeric(h, m) == \E i \in Occurrences(h, m) : ~IsInt(ValueAt(h, i))
\* each marker is defined once, with a number
ValidHeader(hf) ==
    /\ hf.exists
    /\ \A m \in Markers :
        /\ Cardinality(Occurrences(hf.text, m)) = 1
        /\ ~NonNumeric(hf.text, m)
Written(h, m) == ValueAt(h, CHOOSE i \in Occurrences(h, m) : TRUE)
\* the three values as they stand in the text, joined by dots
WrittenVersion(h) ==
    Written(h, "MAJOR") \o <<".">> \o Written(h, "MINOR") \o <<".">> \o Written(h, "PATCH")

DigitChars == <<"0", "1", "2", "3", "4", "5", "6", "7", "8", "9">>
DigitValue(c) == CHOOSE n \in 0..9 : DigitChars[n + 1] = c
RECURSIVE IntOf(_)
IntOf(ds) ==
    IF ds = <<>> THEN 0 ELSE 10 * IntOf(SubSeq(ds, 1, Len(ds) - 1)) + DigitValue(ds[Len(ds)])
RECURSIVE Decimal(_)
Decimal(n) ==
    IF n < 10 THEN <<DigitChars[n + 1]>>
    ELSE Decimal(n \div 10) \o <<DigitChars[(n % 10) + 1]>>
\* the three values parsed as integers, the integers rendered and joined
IntegerVersion(h) ==
    Decimal(IntOf(Written(h, "MAJOR"))) \o <<".">> \o Decimal(IntOf(Written(h, "MINOR")))
    \o <<".">> \o Decimal(IntOf(Written(h, "PATCH")))

\* --------------------------------------------------- where a run stands
Started == pc # "idle"
Finished == pc = "done"
\* get_version_from_header has returned or raised
HeaderDone == pc \notin {"idle", "get_header"}
HeaderErrors == {"RuntimeError:introuvable", "RuntimeError:analyse"}
SchemaErrors == {"TypeError", "KeyError:context", "KeyError:version"}
\* the version string a recipe file holds, read the way the tool reads it
ReadBack(rf) == get_recipe_version(yaml_load(rf).data)
ValidRecipe(rf) == rf.exists /\ rf.shape = "full"
Untouched == writes = 0 /\ recipe = recipe0

\* C1: a run with --check never opens the recipe for writing and leaves the
\* file as it was, whatever the two files hold.
C1_CheckNeverWrites == (Started /\ check_only) => Untouched
C1_Witness == Finished /\ check_only /\ outcome = "Mismatch" /\ Untouched

\* C2 (as claimed): at every point of a run, also in the middle of the write
\* and after an interruption, the recipe on disk is the file the run found
\* or the complete document holding the header version.
C2_NoPartialState ==
    Started =>
        \/ recipe = recipe0
        \/ /\ ValidRecipe(recipe)
           /\ ReadBack(recipe).version = header_version
           /\ recipe.comment = recipe0.comment

\* C3: with no edit in between, a sync run after a successful sync run ends
\* Synced with exit 0 and writes nothing, so the recipe is the one the first
\* run left; and a run after a run of the same mode that wrote nothing ends
\* the way that run ended.
C3_Idempotent ==
    (Finished /\ prev # NoPrev /\ prev.check_only = check_only) =>
        /\ (~check_only /\ prev.outcome \in {"Updated", "Synced"}) =>
                (outcome = "Synced" /\ exit_code = 0 /\ Untouched)
        /\ prev.outcome \notin {"Updated", "Killed"} =>
                (outcome = prev.outcome /\ exit_code = prev.exit_code /\ Untouched)
C3_Witness ==
    /\ Finished /\ ~check_only /\ outcome = "Synced"
    /\ prev # NoPrev /\ ~prev.check_only /\ prev.outcome = "Updated"

\* C4: a finished run without --check on a valid header and a recipe whose
\* version differs from the header's ends Updated with exit 0, and the
\* version read back from the recipe is the header's dotted version string.
C4_RoundTrip ==
    (/\ Finished /\ ~check_only
     /\ ValidHeader(header) /\ ValidRecipe(recipe0)
     /\ ReadBack(recipe0).version # WrittenVersion(header.text)) =>
        /\ outcome = "Updated" /\ exit_code = 0
        /\ ValidRecipe(recipe)
        /\ ReadBack(recipe).ok
        /\ ReadBack(recipe).version = WrittenVersion(header.text)
C4_Witness ==
    /\ Finished /\ ~check_only /\ outcome = "Updated"
    /\ ValidHeader(header) /\ ValidRecipe(recipe0)
    /\ ReadBack(recipe).version = WrittenVersion(header.text)
    /\ ReadBack(recipe0).version # WrittenVersion(header.text)

\* C5: every run that is not interrupted comes to its exit; it exits with 0
\* exactly when it ends Synced or Updated and with 1 otherwise: header
\* missing, marker missing, recipe missing, recipe without context.version,
\* mismatch under --check; a mismatch without --check exits with 0.
ExitCodes ==
    Finished =>
        /\ exit_code \in {0, 1}
        /\ exit_code = 0 <=> outcome \in {"Synced", "Updated"}
        /\ ~header.exists => exit_code = 1
        /\ (\E m \in Markers : MarkerAbsent(header.text, m)) => exit_code = 1
        /\ (ValidHeader(header) /\ ~ValidRecipe(recipe0)) => exit_code = 1
        /\ (ValidHeader(header) /\ ValidRecipe(recipe0)) =>
            IF ReadBack(recipe0).version = WrittenVersion(header.text)
            THEN exit_code = 0 /\ outcome = "Synced"
            ELSE IF check_only THEN exit_code = 1 /\ outcome = "Mismatch"
            ELSE exit_code = 0 /\ outcome = "Updated"
C5_ExitContract ==
    /\ []ExitCodes
    /\ (pc \in Running /\ ~killed) ~> (Finished \/ killed)
C5_Witness ==
    /\ Finished /\ exit_code = 1 /\ outcome = "KeyError:version"
    /\ ValidHeader(header) /\ ~check_only

\* C6 (as claimed): when the header is missing, or a marker is absent, or a
\* marker's value is no number, the extraction raises: the run ends with
\* exit 1 and a message naming the header path, no version is returned and
\* the recipe is neither read nor written.
C6_BadHeaderFails ==
    (/\ HeaderDone
     /\ \/ ~header.exists
        \/ \E m \in Markers : MarkerAbsent(header.text, m) \/ NonNumeric(header.text, m)) =>
        /\ Finished /\ outcome \in HeaderErrors /\ exit_code = 1
        /\ out.stream = "stderr" /\ "HEADER_PATH" \in out.names
        /\ header_version = <<>>
        /\ recipe_data = NoData /\ Untouched

C8_RecipeLoadFails ==
    (Finished /\ get_version_from_header(header).ok /\ ~ValidRecipe(recipe0)) =>
        /\ exit_code # 0
        /\ outcome \in {"FileNotFoundError"} \cup SchemaErrors
        /\ out.stream = "stderr" /\ "RECIPE_PATH" \in out.names
        /\ Untouched

\* C9: a run writes the recipe only on its way to Updated, that is without
\* --check and with two versions that differ; a run that ends any other way
\* wrote nothing, and with equal versions it ends Synced with exit 0 in
\* both modes.
C9_OnlyUpdatedWrites ==
    /\ (Started /\ ~Untouched) =>
        /\ ~check_only
        /\ pc \in {"writing", "done"}
        /\ header_version # recipe_version
        /\ Finished => outcome = "Updated"
    /\ (Finished /\ outcome # "Updated") => Untouched
    /\ (/\ Finished /\ ValidHeader(header) /\ ValidRecipe(recipe0)
        /\ ReadBack(recipe0).version = WrittenVersion(header.text)) =>
            (outcome = "Synced" /\ exit_code = 0 /\ Untouched)
C9_Witness ==
    /\ Finished /\ ~check_only /\ outcome = "Synced" /\ Untouched
    /\ ValidHeader(header) /\ ValidRecipe(recipe0)

\* C10 (as claimed): the write of a sync run changes the version field and
\* nothing else of the recipe's text: the other scalar is written as it was
\* and the comment is kept.
C10_OnlyVersionChanges ==
    (Finished /\ outcome = "Updated") =>
        /\ recipe.shape = recipe0.shape
        /\ recipe.comment = recipe0.comment
        /\ recipe.nameQuoted = recipe0.nameQuoted
====
